---------------------------- MODULE Spec2Model ----------------------------
(***************************************************************************)
(* A model of the UDP message relay of bevy_minimal_async_udp              *)
(* (crates/common/src/lib.rs): the Network resource with its two flume     *)
(* channels and two task handles, the send loop and the receive loop       *)
(* spawned by startup, and the datagram sockets they share.                *)
(*                                                                         *)
(* Every process of the repository owns one Network; the model runs the    *)
(* processes of the set Relays side by side on one loopback interface.     *)
(* A socket address is 127.0.0.1:port and is modelled by its port.         *)
(* A byte string is kept run-length encoded: a sequence of runs            *)
(* [b |-> byte, n |-> count], n > 0, adjacent runs of different bytes.     *)
(***************************************************************************)
EXTENDS Integers, Sequences, FiniteSets, TLC

(***************************************************************************)
(* Bounds of the model.                                                    *)
(***************************************************************************)
\* one process alone (Spec): how many startup calls, try_send calls,
\* socket read errors, tasks closed in the middle of a poll and dequeues
\* from a disconnected queue there are in all
MaxEvents == 4
\* two processes side by side (PairSpec): the same, over both processes
PairEvents == 4
\* the client and the server side by side (PingSpec): the same
PingEvents == 4
\* the most worker threads a task pool has
MaxWorkers == 2

(***************************************************************************)
(* Program constants.                                                      *)
(***************************************************************************)
BUFFER_MAX_SIZE == 2000

\* the fixed listen port of the server binary; 0 asks the OS for a port
ServerPort == 34243

\* the processes (each owns one Network)
Relays == {1, 2}

\* the ephemeral ports the OS hands out for a bind to port 0
EphemeralPorts == {49152, 49153}

\* the ports startup is called with: the client's 0 and the server's port
StartupPorts == {0, ServerPort}

\* every address a socket can be bound to
Ports == {ServerPort} \cup EphemeralPorts

\* the two copies of the relay code: the common library's (lib.rs) and
\* the server binary's own (server/src/main.rs)
Variants == {"common", "server"}

\* the sizes a TaskPool can have: one worker thread per logical core
PoolSizes == 1..MaxWorkers

\* Option<T>: None, or Some(x)
None == << >>
Some(x) == << x >>

(***************************************************************************)
(* Byte strings, run-length encoded.                                       *)
(***************************************************************************)
Run(b, n) == [b |-> b, n |-> n]

RECURSIVE ByteLen(_)
ByteLen(p) == IF p = << >> THEN 0 ELSE Head(p).n + ByteLen(Tail(p))

\* the first k bytes of p  (p[..k])
RECURSIVE TakeBytes(_, _)
TakeBytes(p, k) ==
    IF k <= 0 \/ p = << >> THEN << >>
    ELSE IF Head(p).n <= k
         THEN << Head(p) >> \o TakeBytes(Tail(p), k - Head(p).n)
         ELSE << Run(Head(p).b, k) >>

\* p without its first k bytes  (p[k..])
RECURSIVE DropBytes(_, _)
DropBytes(p, k) ==
    IF k <= 0 \/ p = << >> THEN p
    ELSE IF Head(p).n <= k
         THEN DropBytes(Tail(p), k - Head(p).n)
         ELSE << Run(Head(p).b, Head(p).n - k) >> \o Tail(p)

\* the concatenation of two byte strings, adjacent equal runs merged
JoinBytes(p, q) ==
    IF p = << >> THEN q
    ELSE IF q = << >> THEN p
    ELSE IF p[Len(p)].b = Head(q).b
         THEN SubSeq(p, 1, Len(p) - 1)
                \o << Run(Head(q).b, p[Len(p)].n + Head(q).n) >> \o Tail(q)
         ELSE p \o q

\* the payloads the applications send: a short one, and one that is one
\* byte longer than the receive buffer
ShortPayload == << Run(7, 3) >>
LongPayload == << Run(5, 1), Run(6, BUFFER_MAX_SIZE) >>
Payloads == {ShortPayload, LongPayload}

\* the run-length encoding of a sequence of bytes
RECURSIVE Bytes(_)
Bytes(s) ==
    IF s = << >> THEN << >>
    ELSE JoinBytes(<< Run(Head(s), 1) >>, Bytes(Tail(s)))

\* byte i of p (counted from 1), for i <= ByteLen(p)
ByteAt(p, i) == Head(DropBytes(p, i - 1)).b

\* "message!".as_bytes(), "received!".as_bytes()
MessagePayload == Bytes(<< 109, 101, 115, 115, 97, 103, 101, 33 >>)
ReceivedPayload == Bytes(<< 114, 101, 99, 101, 105, 118, 101, 100, 33 >>)

\* a payload that is not UTF-8: the first byte of a two-byte sequence
\* with an ASCII byte after it
MalformedPayload == Bytes(<< 195, 40 >>)

\* how many bytes the UTF-8 sequence that starts with byte b has; 0 when
\* no sequence starts with b
Utf8Width(b) ==
    IF b < 128 THEN 1
    ELSE IF b >= 194 /\ b <= 223 THEN 2
    ELSE IF b >= 224 /\ b <= 239 THEN 3
    ELSE IF b >= 240 /\ b <= 244 THEN 4
    ELSE 0

\* the values the second byte of a sequence that starts with b may have
Utf8Second(b) ==
    IF b = 224 THEN 160..191
    ELSE IF b = 237 THEN 128..159
    ELSE IF b = 240 THEN 144..191
    ELSE IF b = 244 THEN 128..143
    ELSE 128..191

\* str::from_utf8(p).is_ok(): p is a sequence of well-formed UTF-8
\* sequences
RECURSIVE from_utf8_is_ok(_)
from_utf8_is_ok(p) ==
    IF p = << >> THEN TRUE
    ELSE LET b == Head(p).b
             w == Utf8Width(b)
         IN  IF b < 128 THEN from_utf8_is_ok(Tail(p))
             ELSE /\ w # 0
                  /\ ByteLen(p) >= w
                  /\ ByteAt(p, 2) \in Utf8Second(b)
                  /\ \A i \in 3..w : ByteAt(p, i) \in 128..191
                  /\ from_utf8_is_ok(DropBytes(p, w))

(***************************************************************************)
(* Message (lib.rs 24-43)                                                  *)
(***************************************************************************)
Message(address, payload) == [address |-> address, payload |-> payload]

\* an empty payload (a UDP datagram may carry no bytes at all)
EmptyPayload == << >>

\* payloads of different lengths sent to one address: empty, short, and
\* longer than the receive buffer
SizeMessages ==
    {Message(ServerPort, p) :
        p \in {EmptyPayload, ShortPayload, LongPayload}}

\* the addresses the applications send to: the server's and a client's
Targets == {ServerPort, 49152}

Messages == {Message(a, p) : a \in Targets, p \in Payloads}


(***************************************************************************)
(* State.                                                                  *)
(***************************************************************************)
VARIABLES
    crashed,      \* crashed[r]: process r was aborted by bind_socket's panic
    startups,     \* startups[r]: how many times Network::startup was called
    send_task,    \* Network.send_task: None or the spawned send loop
    recv_task,    \* Network.recv_task: None or the spawned receive loop
    send_channel, \* Network.send_channel: the outbound queue
    recv_channel, \* Network.recv_channel: the inbound queue
    loops,        \* loops[r]: the loop pairs spawned by r's startup calls
    rxq,          \* rxq[p]: datagrams waiting in the socket bound to port p
    procs,        \* the processes that run
    variant,      \* variant[r]: the relay code process r runs
    pool,         \* pool[r]: the worker threads of r's TaskPool
    dropped,      \* dropped[r]: the application has dropped its Network
    budget,       \* the calls and read errors the bounds still allow
    warns,        \* warns[r][k]: warn! lines of kind k written by process r
    sent,         \* sent[r]: the messages try_send accepted, in call order
    written,      \* written[r]: the send_to calls of r's send loops, in order
    reads,        \* reads[r]: the successful recv_from calls of r's loops
    got           \* got[r]: the messages try_recv returned, in call order

vars == << crashed, startups, send_task, recv_task, send_channel,
           recv_channel, loops, rxq, procs, variant, pool, dropped, budget,
           warns, sent, written, reads, got >>

netvars == << crashed, startups, send_task, recv_task, loops >>
hostvars == << procs, variant, pool, dropped >>
histvars == << sent, written, reads, got >>

WarnKinds == {"dequeue", "send", "recv", "enqueue", "malformed", "reply"}

Warn(r, k) == [warns EXCEPT ![r][k] = @ + 1]

(***************************************************************************)
(* AsyncChannel (lib.rs 11-21): a flume channel and who holds its handles. *)
(***************************************************************************)
\* (a channel made with flume::bounded(1) instead)
AsyncChannel_bounded == [cap |-> {1}, queue |-> << >>]

\* flume::unbounded(): the channel has no capacity limit and starts empty
\* (cap is the set of its capacity limits: none)
AsyncChannel_new == [cap |-> {}, queue |-> << >>]

\* the send loops of r that are alive (each owns a clone of the outbound
\* receiver) and the receive loops alive (each owns an inbound sender)
SendLoops(L) ==
    {g \in DOMAIN L :
        L[g].send \in {"await_dequeue", "await_write", "blocked"}}
RecvLoops(L) == {g \in DOMAIN L : L[g].recv = "await_read"}

\* Network holds send_channel.sender and send_channel.receiver itself,
\* until it is dropped; startup clones the receiver into the send loop
NetworkHandle(r) == IF dropped[r] THEN {} ELSE {<< "network", 0 >>}

SendChannelSenders(r) == NetworkHandle(r)
SendChannelReceivers(r) ==
    NetworkHandle(r)
        \cup {<< "send_loop", g >> : g \in SendLoops(loops[r])}

\* (a Network that keeps no sender of the inbound channel)
RecvChannelSenders_unheld(r) ==
    {<< "recv_loop", g >> : g \in RecvLoops(loops[r])}

\* Network holds recv_channel.sender and recv_channel.receiver itself;
\* startup clones the sender into the receive loop
RecvChannelSenders(r) ==
    NetworkHandle(r)
        \cup {<< "recv_loop", g >> : g \in RecvLoops(loops[r])}

\* (a Network that does not keep the receiver of its inbound channel)
RecvChannelReceivers_unheld(r) == {}

RecvChannelReceivers(r) == NetworkHandle(r)

\* flume Sender::try_send and Sender::send on a channel of capacity cap
FlumeTrySend(queue, cap, receivers) ==
    IF receivers = {} THEN "Disconnected"
    ELSE IF \E c \in cap : Len(queue) >= c THEN "Full"
    ELSE "Ok"

\* flume Receiver::try_recv: the oldest item, or why there is none
FlumeTryRecv(queue, senders) ==
    IF queue # << >> THEN "Ok"
    ELSE IF senders = {} THEN "Disconnected"
    ELSE "Empty"

\* (a channel used as a stack: pushed at the front, or popped at the back)
FlumePushFront(queue, item) == << item >> \o queue
FlumePopBack(queue) ==
    [item |-> queue[Len(queue)], rest |-> SubSeq(queue, 1, Len(queue) - 1)]

\* (a dequeue that leaves the item in the queue)
FlumePeek(queue) == [item |-> Head(queue), rest |-> queue]

\* a flume channel is a FIFO queue: items are pushed at the back and
\* popped at the front
FlumePush(queue, item) == Append(queue, item)
FlumePop(queue) == [item |-> Head(queue), rest |-> Tail(queue)]

\* flume Receiver::recv: as try_recv, but the calling thread is parked
\* while the queue is empty
FlumeRecv(queue, senders) ==
    IF queue # << >> THEN "Ok"
    ELSE IF senders = {} THEN "Disconnected"
    ELSE "Blocked"

\* flume Receiver::recv_async: as try_recv, but pending while empty
FlumeRecvAsync(queue, senders) ==
    IF queue # << >> THEN "Ok"
    ELSE IF senders = {} THEN "Disconnected"
    ELSE "Pending"

(***************************************************************************)
(* Sockets.                                                                *)
(***************************************************************************)
\* a socket stays open while a loop still owns a clone of it
OpenPorts(LL) ==
    UNION {{LL[r][g].socket : g \in SendLoops(LL[r]) \cup RecvLoops(LL[r])}
             : r \in Relays}

BindOk(port) == [ok |-> TRUE, port |-> port]
BindErr == [ok |-> FALSE, port |-> 0]

\* UdpSocket::bind(127.0.0.1:port) as bind_socket (lib.rs 86-92) calls it:
\* the results it can have.  Port 0 takes any free ephemeral port; a port
\* that an open socket holds cannot be bound again.
UdpSocket_bind(port) ==
    IF port = 0
    THEN IF EphemeralPorts \subseteq OpenPorts(loops)
         THEN {BindErr}
         ELSE {BindOk(p) : p \in EphemeralPorts \ OpenPorts(loops)}
    ELSE IF port \in OpenPorts(loops) THEN {BindErr} ELSE {BindOk(port)}

\* the receive buffer of recv_loop: let mut buf = [0; BUFFER_MAX_SIZE]
ZeroBuf == << Run(0, BUFFER_MAX_SIZE) >>

\* UdpSocket::recv_from(&mut buf) on datagram d: the datagram is copied
\* into the front of buf; one longer than buf is cut to the buffer (Unix),
\* or cut and reported as an error (Windows, WSAEMSGSIZE)
recv_from(buf, d) ==
    LET n == ByteLen(d.data) IN
    IF n <= BUFFER_MAX_SIZE
    THEN {[ok |-> TRUE, amt |-> n, src |-> d.src, kind |-> "None",
           buf |-> JoinBytes(d.data, DropBytes(buf, n))]}
    ELSE {[ok |-> TRUE, amt |-> BUFFER_MAX_SIZE, src |-> d.src,
           kind |-> "None", buf |-> TakeBytes(d.data, BUFFER_MAX_SIZE)],
          [ok |-> FALSE, amt |-> 0, src |-> d.src, kind |-> "Other",
           buf |-> TakeBytes(d.data, BUFFER_MAX_SIZE)]}

(***************************************************************************)
(* Network (lib.rs 47-83)                                                  *)
(***************************************************************************)
\* Network::new (lib.rs 55-62)
Network_new ==
    [send_task |-> None, recv_task |-> None,
     send_channel |-> AsyncChannel_new, recv_channel |-> AsyncChannel_new]

InitNetworks ==
    /\ crashed = [r \in Relays |-> FALSE]
    /\ startups = [r \in Relays |-> 0]
    /\ send_task = [r \in Relays |-> Network_new.send_task]
    /\ recv_task = [r \in Relays |-> Network_new.recv_task]
    /\ send_channel = [r \in Relays |-> Network_new.send_channel]
    /\ recv_channel = [r \in Relays |-> Network_new.recv_channel]
    /\ loops = [r \in Relays |-> << >>]
    /\ rxq = [p \in Ports |-> << >>]
    /\ warns = [r \in Relays |-> [k \in WarnKinds |-> 0]]
    /\ sent = [r \in Relays |-> << >>]
    /\ written = [r \in Relays |-> << >>]
    /\ reads = [r \in Relays |-> << >>]
    /\ got = [r \in Relays |-> << >>]
    /\ dropped = [r \in Relays |-> FALSE]

\* every process runs the relay of the common library, on a task pool of
\* one worker
Library ==
    /\ variant = [r \in Relays |-> "common"]
    /\ pool = [r \in Relays |-> 1]

\* one process
Init ==
    /\ InitNetworks
    /\ Library
    /\ procs = {1}
    /\ budget = MaxEvents

\* two processes on one host
PairInit ==
    /\ InitNetworks
    /\ Library
    /\ procs = Relays
    /\ budget = PairEvents

\* (a try_recv that waits for a message, as Receiver::recv does)
Network_recv_blocking(r) ==
    FlumeRecvAsync(recv_channel[r].queue, RecvChannelSenders(r))

\* Network::try_recv (lib.rs 64-66): what the call returns
Network_try_recv(r) ==
    FlumeTryRecv(recv_channel[r].queue, RecvChannelSenders(r))

\* Network::try_send (lib.rs 68-70): what the call returns
Network_try_send(r, message) ==
    FlumeTrySend(send_channel[r].queue, send_channel[r].cap,
                 SendChannelReceivers(r))

\* the application of process r calls net.try_recv()
try_recv(r) ==
    LET res == Network_try_recv(r) IN
    /\ r \in procs /\ ~crashed[r] /\ ~dropped[r]
    /\ res # "Pending"
    /\ IF res = "Ok"
       THEN /\ recv_channel' =
                 [recv_channel EXCEPT ![r].queue = FlumePop(@).rest]
            /\ got' = [got EXCEPT ![r] =
                         Append(@, FlumePop(recv_channel[r].queue).item)]
       ELSE UNCHANGED << recv_channel, got >>
    /\ UNCHANGED << netvars, send_channel, rxq, hostvars, budget, warns,
                    sent, written, reads >>

\* the application of process r calls net.try_send(message)
try_send(r, message) ==
    LET res == Network_try_send(r, message) IN
    /\ r \in procs /\ ~crashed[r] /\ ~dropped[r]
    /\ budget > 0
    /\ res # "Pending"
    /\ budget' = budget - 1
    /\ IF res = "Ok"
       THEN /\ send_channel' =
                 [send_channel EXCEPT ![r].queue = FlumePush(@, message)]
            /\ sent' = [sent EXCEPT ![r] = Append(@, message)]
       ELSE UNCHANGED << send_channel, sent >>
    /\ UNCHANGED << netvars, recv_channel, rxq, hostvars, warns,
                    written, reads, got >>

\* Dropping a bevy Task cancels it: the task is closed and is not polled
\* again, and its future is dropped with what it holds (the message being
\* written, the receive buffer, its clones of the socket and the channel
\* handle).  A task that a worker is polling at that moment runs on to the
\* point where it next suspends and is dropped there.
\* A send loop can be in a poll when it has a message to take or to write.
SendRunnable(r, l) ==
    \/ l.send \in {"await_write", "blocked"}
    \/ l.send = "await_dequeue" /\ send_channel[r].queue # << >>

\* A receive loop can be in a poll when a datagram waits in its socket.
RecvRunnable(r, l) == l.recv = "await_read" /\ rxq[l.socket] # << >>

\* (a Task that is detached when it is dropped and runs on)
drop_send_task_detach(r, L, task) == {L}

\* what dropping the Task of a send loop can leave of the loops L
drop_send_task(r, L, task) ==
    IF task = None THEN {L}
    ELSE (IF L[task[1]].send = "blocked" THEN {}
          ELSE {[L EXCEPT ![task[1]].send = "cancelled",
                          ![task[1]].cur = None]})
         \cup (IF SendRunnable(r, L[task[1]])
               THEN {[L EXCEPT ![task[1]].send_closed = TRUE]}
               ELSE {})

\* (a receive Task that is detached when it is dropped and runs on)
drop_recv_task_detach(r, L, task) == {L}

\* what dropping the Task of a receive loop can leave of the loops L
drop_recv_task(r, L, task) ==
    IF task = None THEN {L}
    ELSE {[L EXCEPT ![task[1]].recv = "cancelled",
                    ![task[1]].buf = << >>]}
         \cup (IF RecvRunnable(r, L[task[1]])
               THEN {[L EXCEPT ![task[1]].recv_closed = TRUE]}
               ELSE {})

\* how many tasks of the loops L2 were closed in the middle of a poll
\* and run on, that were not in L1
Races(L1, L2) ==
    Cardinality({g \in DOMAIN L1 :
                    L2[g].send_closed /\ ~L1[g].send_closed})
      + Cardinality({g \in DOMAIN L1 :
                        L2[g].recv_closed /\ ~L1[g].recv_closed})

\* the process is gone: none of its loops runs any more
abort_process(L) ==
    [g \in DOMAIN L |->
        [L[g] EXCEPT !.send = "cancelled", !.cur = None,
                     !.recv = "cancelled", !.buf = << >>,
                     !.send_closed = FALSE, !.recv_closed = FALSE]]

\* (a startup that drops the receive loop's Task instead of storing it)
spawn_loops_recv_dropped(socket) ==
    [socket |-> socket, send |-> "await_dequeue", cur |-> None,
     recv |-> "cancelled", buf |-> << >>,
     send_closed |-> FALSE, recv_closed |-> FALSE]

\* runtime.spawn(send_loop(socket.clone(), send_relay)) and
\* runtime.spawn(recv_loop(socket.clone(), recv_relay))
spawn_loops(socket) ==
    [socket |-> socket, send |-> "await_dequeue", cur |-> None,
     recv |-> "await_read", buf |-> ZeroBuf,
     send_closed |-> FALSE, recv_closed |-> FALSE]

\* a closed socket loses the datagrams waiting in it
close_sockets(LL) ==
    [p \in Ports |-> IF p \in OpenPorts(LL) THEN rxq[p] ELSE << >>]

\* (a bind_socket that falls back to an OS-chosen port)
bind_socket_fallback(port) ==
    IF UdpSocket_bind(port) = {BindErr}
    THEN UdpSocket_bind(0)
    ELSE UdpSocket_bind(port)

\* bind_socket (lib.rs 86-92): the socket of 127.0.0.1:port, or the error
\* it panics with
bind_socket(port) == UdpSocket_bind(port)

\* (a startup that makes a new outbound channel for the send loop)
send_relay_new_channel(r) == AsyncChannel_new

\* let send_relay = self.send_channel.receiver.clone(): the send loop
\* gets a handle of the outbound channel the Network has, with what is
\* queued in it
send_relay(r) == send_channel[r]

\* Network::startup (lib.rs 72-78)
startup(r, port) ==
    /\ r \in procs /\ ~crashed[r] /\ ~dropped[r]
    /\ budget > 0
    /\ startups' = [startups EXCEPT ![r] = @ + 1]
    /\ \E socket \in bind_socket(port) :
         IF ~socket.ok
         THEN \* panic!("failed to listen on ...")
              /\ crashed' = [crashed EXCEPT ![r] = TRUE]
              /\ loops' = [loops EXCEPT ![r] = abort_process(@)]
              /\ budget' = budget - 1
              /\ UNCHANGED << send_task, recv_task >>
         ELSE /\ \E L1 \in drop_send_task(r, loops[r], send_task[r]) :
                 \E L2 \in drop_recv_task(r, L1, recv_task[r]) :
                   /\ loops' = [loops EXCEPT ![r] =
                                  Append(L2, spawn_loops(socket.port))]
                   /\ budget' = budget - 1 - Races(loops[r], L2)
                   /\ budget' >= 0
              /\ send_task' = [send_task EXCEPT ![r] = Some(Len(loops'[r]))]
              /\ recv_task' = [recv_task EXCEPT ![r] = Some(Len(loops'[r]))]
              /\ UNCHANGED crashed
    /\ rxq' = close_sockets(loops')
    /\ send_channel' = [send_channel EXCEPT ![r] = send_relay(r)]
    /\ UNCHANGED << recv_channel, hostvars, warns, histvars >>

(***************************************************************************)
(* send_loop and send_message (lib.rs 96-103, 121-125)                     *)
(***************************************************************************)
\* the workers of r's task pool that are parked inside a blocking call,
\* and whether a worker is left to poll a task
BusyWorkers(r) ==
    Cardinality({g \in DOMAIN loops[r] : loops[r][g].send = "blocked"})
FreeWorker(r) == BusyWorkers(r) < pool[r]

\* the dequeue of the send loop: send_channel.recv_async().await
\* (lib.rs 98), send_channel.recv() in the server (server/src/main.rs 53)
send_channel_recv(r) ==
    IF variant[r] = "server"
    THEN FlumeRecv(send_channel[r].queue, SendChannelSenders(r))
    ELSE FlumeRecvAsync(send_channel[r].queue, SendChannelSenders(r))

\* a worker polls the send loop at its dequeue, or the dequeue that
\* parked a worker returns
send_loop(r, g) ==
    LET res == send_channel_recv(r) IN
    /\ g \in DOMAIN loops[r]
    /\ \/ loops[r][g].send = "await_dequeue" /\ FreeWorker(r)
       \/ loops[r][g].send = "blocked" /\ res # "Blocked"
    /\ res # "Pending"
    /\ IF res = "Ok"
       THEN /\ send_channel' =
                 [send_channel EXCEPT ![r].queue = FlumePop(@).rest]
            /\ loops' = [loops EXCEPT
                   ![r][g].send = "await_write",
                   ![r][g].cur = Some(FlumePop(send_channel[r].queue).item)]
            /\ UNCHANGED warns
       ELSE IF res = "Blocked"
       THEN /\ loops' = [loops EXCEPT ![r][g].send = "blocked"]
            /\ UNCHANGED << warns, send_channel >>
       ELSE /\ warns' = Warn(r, "dequeue")
            /\ loops' = [loops EXCEPT ![r][g].send = "await_dequeue"]
            /\ UNCHANGED send_channel
    /\ IF res = "Disconnected"
       THEN budget > 0 /\ budget' = budget - 1
       ELSE UNCHANGED budget
    /\ UNCHANGED << crashed, startups, send_task, recv_task, recv_channel,
                    rxq, hostvars, histvars >>

\* what socket.send_to(payload, address) can do: hand the datagram to the
\* socket bound to address, lose it on the way, or fail
send_to(address) ==
    {"lost", "err"} \cup
        (IF address \in OpenPorts(loops) THEN {"delivered"} ELSE {})

\* (a send_message that puts the message back on the queue to retry it)
send_error_retry(r, message) ==
    /\ warns' = Warn(r, "send")
    /\ send_channel' =
         [send_channel EXCEPT ![r].queue = Append(@, message)]

\* send_message, its Err arm: warn!("failed to send packet to ...")
send_error(r, message) ==
    /\ warns' = Warn(r, "send")
    /\ UNCHANGED send_channel

\* socket.send_to(&message.payload, message.address).await returns
send_message(r, g) ==
    /\ g \in DOMAIN loops[r]
    /\ loops[r][g].send = "await_write"
    /\ FreeWorker(r)
    /\ LET message == loops[r][g].cur[1] IN
       \E res \in send_to(message.address) :
         /\ written' = [written EXCEPT ![r] =
                Append(@, [message |-> message, res |-> res,
                           socket |-> loops[r][g].socket])]
         /\ rxq' = IF res = "delivered"
                   THEN [rxq EXCEPT ![message.address] =
                           Append(@, [src |-> loops[r][g].socket,
                                      data |-> message.payload])]
                   ELSE rxq
         /\ IF res = "err"
            THEN send_error(r, message)
            ELSE UNCHANGED << warns, send_channel >>
    /\ loops' = [loops EXCEPT ![r][g].send = "await_dequeue",
                              ![r][g].cur = None]
    /\ UNCHANGED << crashed, startups, send_task, recv_task, recv_channel,
                    hostvars, budget, sent, reads, got >>

(***************************************************************************)
(* recv_loop and recv_message (lib.rs 107-118, 128-132)                    *)
(***************************************************************************)
\* (an Err arm that drops the message without a word)
enqueue_error_ignored(r) == warns

\* recv_message, its Err arm: warn!("failed to enqueue incoming ...")
enqueue_error(r) == Warn(r, "enqueue")

\* recv_message: recv_channel.send(Message::new(*source, buf.to_vec()))
recv_message(r, source, buf) ==
    LET message == Message(source, buf)
        res == FlumeTrySend(recv_channel[r].queue, recv_channel[r].cap,
                            RecvChannelReceivers(r))
    IN  /\ recv_channel' =
             IF res = "Ok"
             THEN [recv_channel EXCEPT ![r].queue = FlumePush(@, message)]
             ELSE recv_channel
        /\ warns' = IF res = "Ok" THEN warns ELSE enqueue_error(r)

\* (the buffer up to its last byte that is not zero)
buf_trim_zeros(buf, amt) ==
    IF buf # << >> /\ buf[Len(buf)].b = 0
    THEN SubSeq(buf, 1, Len(buf) - 1)
    ELSE buf

\* (the whole buffer: &buf)
buf_whole(buf, amt) == buf

\* &buf[..amt]
buf_slice(buf, amt) == TakeBytes(buf, amt)

\* the Err arm of recv_loop's match: the library ignores ConnectionReset
\* (lib.rs 112-115), the server has no such arm (server/src/main.rs 71)
recv_error_is_ignored(r, kind) ==
    variant[r] = "common" /\ kind = "ConnectionReset"

\* the Err arm of recv_loop: an error that is not ignored is logged
recv_error(r, kind) ==
    /\ warns' = IF recv_error_is_ignored(r, kind) THEN warns
                ELSE Warn(r, "recv")
    /\ UNCHANGED recv_channel

\* (a recv_loop that returns on a read error)
after_recv_error_return(kind) == "returned"

\* where recv_loop goes after the Err arm: round the loop again
after_recv_error(kind) == "await_read"

\* socket.recv_from(&mut buf).await returns for the next datagram
recv_loop(r, g) ==
    /\ g \in DOMAIN loops[r]
    /\ loops[r][g].recv = "await_read"
    /\ FreeWorker(r)
    /\ rxq[loops[r][g].socket] # << >>
    /\ LET d == Head(rxq[loops[r][g].socket]) IN
       \E res \in recv_from(loops[r][g].buf, d) :
         IF res.ok
         THEN /\ recv_message(r, res.src, buf_slice(res.buf, res.amt))
              /\ loops' = [loops EXCEPT ![r][g].buf = res.buf]
              /\ reads' = [reads EXCEPT ![r] = Append(@,
                    [ok |-> TRUE, datagram |-> d, amt |-> res.amt,
                     kind |-> res.kind,
                     message |-> Message(res.src,
                                         buf_slice(res.buf, res.amt))])]
         ELSE /\ recv_error(r, res.kind)
              /\ loops' = [loops EXCEPT
                              ![r][g].buf = res.buf,
                              ![r][g].recv = after_recv_error(res.kind)]
              /\ reads' = [reads EXCEPT ![r] = Append(@,
                    [ok |-> FALSE, datagram |-> d, amt |-> res.amt,
                     kind |-> res.kind, message |-> Message(0, << >>)])]
    /\ rxq' = [rxq EXCEPT ![loops[r][g].socket] = Tail(@)]
    /\ UNCHANGED << crashed, startups, send_task, recv_task, send_channel,
                    hostvars, budget, sent, written, got >>

\* the kinds of error a read can fail with
ReadErrorKinds == {"ConnectionReset", "Other"}

\* socket.recv_from(&mut buf).await returns an error without a datagram
recv_loop_error(r, g, kind) ==
    /\ g \in DOMAIN loops[r]
    /\ loops[r][g].recv = "await_read"
    /\ FreeWorker(r)
    /\ budget > 0
    /\ budget' = budget - 1
    /\ recv_error(r, kind)
    /\ loops' = [loops EXCEPT ![r][g].recv = after_recv_error(kind)]
    /\ reads' = [reads EXCEPT ![r] = Append(@,
          [ok |-> FALSE, datagram |-> [src |-> 0, data |-> << >>],
           amt |-> 0, kind |-> kind, message |-> Message(0, << >>)])]
    /\ UNCHANGED << crashed, startups, send_task, recv_task, send_channel,
                    rxq, hostvars, sent, written, got >>

(***************************************************************************)
(* The end of a task, and of the Network.                                  *)
(***************************************************************************)
\* the sides of a loop pair: its send task and its receive task
Sides == {"send", "recv"}

\* A task whose Task was dropped during a poll reaches a point where it
\* suspends (a dequeue from an empty queue, a write or a read the socket
\* is not ready for) and the executor drops its future.
cancel_task(r, g, side) ==
    /\ g \in DOMAIN loops[r]
    /\ IF side = "send"
       THEN /\ loops[r][g].send_closed
            /\ \/ loops[r][g].send = "await_write"
               \/ /\ loops[r][g].send = "await_dequeue"
                  /\ send_channel_recv(r) = "Pending"
            /\ loops' = [loops EXCEPT ![r][g].send = "cancelled",
                                      ![r][g].cur = None,
                                      ![r][g].send_closed = FALSE]
       ELSE /\ loops[r][g].recv_closed
            /\ loops[r][g].recv = "await_read"
            /\ loops' = [loops EXCEPT ![r][g].recv = "cancelled",
                                      ![r][g].buf = << >>,
                                      ![r][g].recv_closed = FALSE]
    /\ rxq' = close_sockets(loops')
    /\ UNCHANGED << crashed, startups, send_task, recv_task, send_channel,
                    recv_channel, hostvars, budget, warns, histvars >>

\* The application drops its Network (the resource is removed, or the
\* App is torn down): the fields go in the order of their declaration
\* (lib.rs 47-52), the two Tasks first, then the Network's channel ends.
drop_network(r) ==
    /\ r \in procs /\ ~crashed[r] /\ ~dropped[r]
    /\ dropped' = [dropped EXCEPT ![r] = TRUE]
    /\ \E L1 \in drop_send_task(r, loops[r], send_task[r]) :
         \E L2 \in drop_recv_task(r, L1, recv_task[r]) :
           /\ loops' = [loops EXCEPT ![r] = L2]
           /\ budget' = budget - Races(loops[r], L2)
           /\ budget' >= 0
    /\ send_task' = [send_task EXCEPT ![r] = None]
    /\ recv_task' = [recv_task EXCEPT ![r] = None]
    /\ rxq' = close_sockets(loops')
    /\ UNCHANGED << crashed, startups, send_channel, recv_channel, procs,
                    variant, pool, warns, histvars >>

(***************************************************************************)
(* The applications: the client binary (client/src/main.rs) and the        *)
(* server binary (server/src/main.rs).                                     *)
(***************************************************************************)
\* the process of the client binary and the process of the server binary
Client == 1
Server == 2

\* what the client sends on every tick (client/src/main.rs 26-27), and a
\* payload that is not text sent to the same address
ClientMessage == Message(ServerPort, MessagePayload)
PingMessages == {ClientMessage, Message(ServerPort, MalformedPayload)}

\* (a server that reads the payload with String::from_utf8_lossy, which
\* accepts any bytes)
from_utf8_lossy(p) == TRUE

\* str::from_utf8(&message.payload) of print_network_messages: Ok or Err
str_from_utf8(p) == from_utf8_is_ok(p)

\* the reply of the server to message (server/src/main.rs 132)
ServerReply(message) == Message(message.address, ReceivedPayload)

\* the while loop of the server's print_network_messages
\* (server/src/main.rs 128-139), from the state st of the two queues:
\* every message try_recv returns is answered when its payload is text
RECURSIVE server_loop(_, _)
server_loop(r, st) ==
    IF FlumeTryRecv(st.inq, RecvChannelSenders(r)) # "Ok" THEN st
    ELSE LET message == FlumePop(st.inq).item
             reply == ServerReply(message)
             res == FlumeTrySend(st.outq, send_channel[r].cap,
                                 SendChannelReceivers(r))
             took == [st EXCEPT !.inq = FlumePop(@).rest,
                                !.got = Append(@, message)]
         IN  IF ~str_from_utf8(message.payload)
             THEN server_loop(r, [took EXCEPT !.malformed = @ + 1])
             ELSE IF res = "Ok"
             THEN server_loop(r, [took EXCEPT
                                    !.outq = FlumePush(@, reply),
                                    !.sent = Append(@, reply)])
             ELSE server_loop(r, [took EXCEPT !.reply = @ + 1])

\* the while loop of the client's print_network_messages
\* (client/src/main.rs 17-22): every message try_recv returns is logged
RECURSIVE client_loop(_, _)
client_loop(r, st) ==
    IF FlumeTryRecv(st.inq, RecvChannelSenders(r)) # "Ok" THEN st
    ELSE LET message == FlumePop(st.inq).item
             took == [st EXCEPT !.inq = FlumePop(@).rest,
                                !.got = Append(@, message)]
         IN  IF ~str_from_utf8(message.payload)
             THEN client_loop(r, [took EXCEPT !.malformed = @ + 1])
             ELSE client_loop(r, took)

\* the queues and logs of process r when a system starts to run
SystemState(r) ==
    [inq |-> recv_channel[r].queue, outq |-> send_channel[r].queue,
     got |-> got[r], sent |-> sent[r],
     malformed |-> warns[r]["malformed"], reply |-> warns[r]["reply"]]

\* process r has run a system that left the state st
SystemDone(r, st) ==
    /\ recv_channel' = [recv_channel EXCEPT ![r].queue = st.inq]
    /\ send_channel' = [send_channel EXCEPT ![r].queue = st.outq]
    /\ got' = [got EXCEPT ![r] = st.got]
    /\ sent' = [sent EXCEPT ![r] = st.sent]
    /\ warns' = [warns EXCEPT ![r]["malformed"] = st.malformed,
                              ![r]["reply"] = st.reply]
    /\ UNCHANGED << netvars, rxq, hostvars, budget, written, reads >>

\* the server's system print_network_messages (server/src/main.rs 127-140)
server_print_network_messages ==
    /\ Server \in procs /\ ~crashed[Server] /\ ~dropped[Server]
    /\ SystemDone(Server, server_loop(Server, SystemState(Server)))

\* the client's system print_network_messages (client/src/main.rs 16-23)
client_print_network_messages ==
    /\ Client \in procs /\ ~crashed[Client] /\ ~dropped[Client]
    /\ SystemDone(Client, client_loop(Client, SystemState(Client)))

\* the server's startup system (server/src/main.rs 123-125)
start_server == startup(Server, ServerPort)

\* the client's startup system (lib.rs 149-151 with the port of
\* client/src/main.rs 10)
start_client == startup(Client, 0)

(***************************************************************************)
(* The system.                                                             *)
(***************************************************************************)
\* the loop pairs a process can have spawned
Gens == 1..(MaxEvents + PairEvents + PingEvents)

Next ==
    \/ \E r \in Relays, port \in StartupPorts : startup(r, port)
    \/ \E r \in Relays, message \in Messages : try_send(r, message)
    \/ \E r \in Relays : try_recv(r)
    \/ \E r \in Relays, g \in Gens : send_loop(r, g)
    \/ \E r \in Relays, g \in Gens : send_message(r, g)
    \/ \E r \in Relays, g \in Gens : recv_loop(r, g)
    \/ \E r \in Relays, g \in Gens, kind \in ReadErrorKinds :
          recv_loop_error(r, g, kind)
    \/ \E r \in Relays, g \in Gens, side \in Sides : cancel_task(r, g, side)

Spec == Init /\ [][Next]_vars

PairSpec == PairInit /\ [][Next]_vars

\* The task pool keeps polling a loop that can go on: a send loop whose
\* queue holds a message, a send_to or recv_from that can return.  The
\* application polls try_recv on every tick (print_network_messages).
\* A process has at most one send loop and one receive loop alive.
Fairness ==
    \A r \in Relays :
        /\ WF_vars(\E g \in Gens : send_loop(r, g))
        /\ WF_vars(\E g \in Gens : send_message(r, g))
        /\ WF_vars(\E g \in Gens : recv_loop(r, g))
        /\ WF_vars(try_recv(r))

FairSpec == Spec /\ Fairness

\* one process that sends datagrams of different sizes
SizesNext ==
    \/ \E r \in Relays, port \in StartupPorts : startup(r, port)
    \/ \E r \in Relays, message \in SizeMessages : try_send(r, message)
    \/ \E r \in Relays : try_recv(r)
    \/ \E r \in Relays, g \in Gens : send_loop(r, g)
    \/ \E r \in Relays, g \in Gens : send_message(r, g)
    \/ \E r \in Relays, g \in Gens : recv_loop(r, g)
    \/ \E r \in Relays, g \in Gens, kind \in ReadErrorKinds :
          recv_loop_error(r, g, kind)
    \/ \E r \in Relays, g \in Gens, side \in Sides : cancel_task(r, g, side)

SizesSpec == Init /\ [][SizesNext]_vars

\* the messages an application enqueues before it starts its relay, and
\* the ones it enqueues after: told apart by their payloads
EarlyMessages == {Message(a, ShortPayload) : a \in Targets}
LateMessages == {Message(a, LongPayload) : a \in Targets}

\* one process whose application enqueues messages before startup too
EarlyNext ==
    \/ \E r \in Relays, port \in StartupPorts : startup(r, port)
    \/ \E r \in Relays, message \in EarlyMessages :
          startups[r] = 0 /\ try_send(r, message)
    \/ \E r \in Relays, message \in LateMessages :
          startups[r] >= 1 /\ try_send(r, message)
    \/ \E r \in Relays : try_recv(r)
    \/ \E r \in Relays, g \in Gens : send_loop(r, g)
    \/ \E r \in Relays, g \in Gens : send_message(r, g)
    \/ \E r \in Relays, g \in Gens : recv_loop(r, g)
    \/ \E r \in Relays, g \in Gens, kind \in ReadErrorKinds :
          recv_loop_error(r, g, kind)
    \/ \E r \in Relays, g \in Gens, side \in Sides : cancel_task(r, g, side)

EarlySpec == Init /\ [][EarlyNext]_vars /\ Fairness

\* one process whose application may drop its Network
TeardownNext ==
    \/ Next
    \/ \E r \in Relays : drop_network(r)

TeardownSpec == Init /\ [][TeardownNext]_vars

\* the two binaries side by side: the client sends to the server, the
\* server answers
PingInit ==
    /\ InitNetworks
    /\ Library
    /\ procs = {Client, Server}
    /\ budget = PingEvents

PingNext ==
    \/ start_client
    \/ start_server
    \/ \E message \in PingMessages : try_send(Client, message)
    \/ client_print_network_messages
    \/ server_print_network_messages
    \/ \E r \in Relays, g \in Gens : send_loop(r, g)
    \/ \E r \in Relays, g \in Gens : send_message(r, g)
    \/ \E r \in Relays, g \in Gens : recv_loop(r, g)
    \/ \E r \in Relays, g \in Gens, kind \in ReadErrorKinds :
          recv_loop_error(r, g, kind)
    \/ \E r \in Relays, g \in Gens, side \in Sides : cancel_task(r, g, side)

\* the task pools poll the loops that can go on, and bevy runs the two
\* print_network_messages systems on every tick
PingFairness ==
    /\ \A r \in Relays :
        /\ WF_vars(\E g \in Gens : send_loop(r, g))
        /\ WF_vars(\E g \in Gens : send_message(r, g))
        /\ WF_vars(\E g \in Gens : recv_loop(r, g))
    /\ WF_vars(client_print_network_messages)
    /\ WF_vars(server_print_network_messages)

PingSpec == PingInit /\ [][PingNext]_vars /\ PingFairness

\* the same two processes, the second with either copy of the relay code,
\* on task pools of every size
VariantInit ==
    /\ InitNetworks
    /\ variant \in {v \in [Relays -> Variants] : v[Client] = "common"}
    /\ pool \in [Relays -> PoolSizes]
    /\ procs = {Client, Server}
    /\ budget = PingEvents

VariantSpec == VariantInit /\ [][PingNext]_vars /\ PingFairness

(***************************************************************************)
(* Properties.                                                             *)
(***************************************************************************)
IsPrefix(s, t) == Len(s) <= Len(t) /\ s = SubSeq(t, 1, Len(s))

Min(a, b) == IF a <= b THEN a ELSE b

\* the messages of r's send_to calls, in call order
WrittenMessages(r) == [i \in 1..Len(written[r]) |-> written[r][i].message]

ReadIsOk(e) == e.ok

\* the messages r's receive loops made of the datagrams they read, in
\* the order the reads returned
ReadMessages(r) ==
    LET ok == SelectSeq(reads[r], ReadIsOk)
    IN  [i \in 1..Len(ok) |-> ok[i].message]

\* C1: on a Network started exactly once, the send loop's socket writes,
\* failed ones included, are for the messages try_send accepted, in the
\* order of the try_send calls.
C1_WriteOrder ==
    \A r \in Relays :
        startups[r] = 1 => IsPrefix(WrittenMessages(r), sent[r])

\* two different messages were written in turn, the first write failing
C1_Witness ==
    /\ startups[1] = 1
    /\ Len(written[1]) = 2
    /\ written[1][1].message # written[1][2].message
    /\ written[1][1].res = "err"
    /\ written[1][2].res # "err"

\* C3: while the inbound queue is empty try_recv returns Empty (never
\* Disconnected), it returns at once, and it changes neither queue and
\* neither task handle.
C3_EmptyRecv ==
    /\ [](\A r \in Relays :
            recv_channel[r].queue = << >> =>
                /\ Network_try_recv(r) = "Empty"
                /\ (r \in procs /\ ~crashed[r] => ENABLED try_recv(r)))
    /\ [][\A r \in Relays :
            (recv_channel[r].queue = << >> /\ try_recv(r)) =>
                UNCHANGED << send_channel, recv_channel, send_task,
                             recv_task >>]_vars

\* the inbound queue is empty again after its messages were consumed
C3_Witness ==
    /\ Len(got[1]) >= 1
    /\ recv_channel[1].queue = << >>
    /\ Network_try_recv(1) = "Empty"

\* C4: try_send returns Ok in every state, whatever the backlog and
\* whether or not startup was called, and puts the message at the tail of
\* the outbound queue.
C4_SendAccepted ==
    /\ [](\A r \in Relays, m \in Messages : Network_try_send(r, m) = "Ok")
    /\ [][\A r \in Relays, m \in Messages :
            try_send(r, m) =>
                /\ send_channel'[r].queue = Append(send_channel[r].queue, m)
                /\ sent'[r] = Append(sent[r], m)]_vars

\* a message was accepted behind a backlog while the send loop was in the
\* middle of a write
C4_Witness ==
    \E g \in DOMAIN loops[1] :
        /\ loops[1][g].send = "await_write"
        /\ Len(send_channel[1].queue) >= 2
        /\ Len(sent[1]) = 3

\* C6: the message made of a datagram of n bytes has the first
\* min(n, BUFFER_MAX_SIZE) bytes of the datagram as payload, 2000 bytes
\* for a datagram longer than the buffer, and the loop goes on reading.
C6_Truncation ==
    /\ BUFFER_MAX_SIZE = 2000
    /\ \A r \in Relays :
        /\ \A i \in 1..Len(reads[r]) :
             LET e == reads[r][i]
                 n == ByteLen(e.datagram.data)
             IN  e.ok =>
                   /\ e.amt = Min(n, BUFFER_MAX_SIZE)
                   /\ ByteLen(e.message.payload) = Min(n, BUFFER_MAX_SIZE)
                   /\ e.message.payload =
                        TakeBytes(e.datagram.data, BUFFER_MAX_SIZE)
                   /\ (n > BUFFER_MAX_SIZE =>
                         ByteLen(e.message.payload) = 2000)
        /\ \A g \in DOMAIN loops[r] :
             loops[r][g].recv \in {"await_read", "cancelled"}

\* a datagram longer than the buffer was read, and another one after it
C6_Witness ==
    \E i, j \in 1..Len(reads[1]) :
        /\ i < j
        /\ reads[1][i].ok
        /\ ByteLen(reads[1][i].datagram.data) > BUFFER_MAX_SIZE
        /\ reads[1][j].ok
        /\ ByteLen(reads[1][j].datagram.data) < BUFFER_MAX_SIZE

\* C10: the messages try_recv returned, followed by those still in the
\* inbound queue, are the messages of the successful socket reads in the
\* order the reads returned.
C10_RecvOrder ==
    \A r \in Relays :
        ReadMessages(r) = got[r] \o recv_channel[r].queue

\* try_recv returned two different messages
C10_Witness ==
    /\ Len(got[1]) >= 2
    /\ got[1][1] # got[1][2]

\* C5: a startup whose bind fails aborts the process: no other port is
\* bound, no loop is spawned, and the task handles stay as they were,
\* absent on a Network that was never started.
C5_BindFailureFatal ==
    [][\A r \in Relays, port \in StartupPorts :
        (startup(r, port) /\ UdpSocket_bind(port) = {BindErr}) =>
            /\ crashed'[r]
            /\ OpenPorts(loops') \subseteq OpenPorts(loops)
            /\ Len(loops'[r]) = Len(loops[r])
            /\ SendLoops(loops'[r]) = {} /\ RecvLoops(loops'[r]) = {}
            /\ send_task'[r] = send_task[r] /\ recv_task'[r] = recv_task[r]
            /\ (startups[r] = 0 =>
                  send_task'[r] = None /\ recv_task'[r] = None)]_vars

\* process 2 was aborted starting on the server port process 1 holds
C5_Witness ==
    /\ crashed[2] /\ ~crashed[1]
    /\ startups[2] = 1
    /\ \E g \in SendLoops(loops[1]) \cap RecvLoops(loops[1]) :
          loops[1][g].socket = ServerPort
    /\ loops[2] = << >>
    /\ send_task[2] = None /\ recv_task[2] = None

\* C7: in every state try_recv can return at once, and so can try_send
\* for any message (while the bound of the model allows another call).
C7_NonBlocking ==
    \A r \in procs :
        ~crashed[r] =>
            /\ ENABLED try_recv(r)
            /\ budget > 0 => \A m \in Messages : ENABLED try_send(r, m)

\* the send loop is in the middle of a write with a backlog behind it, the
\* receive loop waits for a datagram, and another call is possible
C7_Witness ==
    \E g \in DOMAIN loops[1] :
        /\ loops[1][g].send = "await_write"
        /\ loops[1][g].recv = "await_read"
        /\ rxq[loops[1][g].socket] = << >>
        /\ send_channel[1].queue # << >>
        /\ budget > 0

\* the step is a failed send_to of process r
WriteFailed(r) ==
    /\ Len(written'[r]) = Len(written[r]) + 1
    /\ written'[r][Len(written'[r])].res = "err"

\* the step is a read of process r that returned an error
ReadFailed(r) ==
    /\ Len(reads'[r]) = Len(reads[r]) + 1
    /\ ~reads'[r][Len(reads'[r])].ok

\* the step is a read of process r that returned a datagram
ReadDone(r) ==
    /\ Len(reads'[r]) = Len(reads[r]) + 1
    /\ reads'[r][Len(reads'[r])].ok

\* C9: a read error of any kind leaves the inbound queue as it is and
\* the receive loop waiting for the next datagram, and every datagram read
\* after it is put on the inbound queue.
C9_ReadErrorsSurvived ==
    [][\A r \in Relays :
        /\ ReadFailed(r) =>
             /\ recv_channel' = recv_channel
             /\ got' = got
             /\ \A g \in DOMAIN loops[r] :
                  loops[r][g].recv = "await_read" =>
                      loops'[r][g].recv = "await_read"
        /\ ReadDone(r) =>
             recv_channel'[r].queue =
                 Append(recv_channel[r].queue,
                        reads'[r][Len(reads'[r])].message)]_vars

\* two read errors in a row, one of each kind, and then a datagram read
C9_Witness ==
    /\ Len(reads[1]) = 3
    /\ ~reads[1][1].ok /\ ~reads[1][2].ok
    /\ reads[1][1].kind # reads[1][2].kind
    /\ reads[1][3].ok
    /\ recv_channel[1].queue = << reads[1][3].message >>

\* how many elements of sequence q satisfy Test
Count(q, Test(_)) == Cardinality({i \in 1..Len(q) : Test(q[i])})

\* the datagrams with payload p that process r sent from its socket at
\* address to that same address and that the transport delivered
LoopbackDelivered(r, address, p) ==
    LET Test(e) == /\ e.res = "delivered"
                   /\ e.socket = address
                   /\ e.message = Message(address, p)
    IN  Count(written[r], Test)

\* the messages try_recv of process r returned with that address and payload
GotCount(r, address, p) ==
    LET Test(m) == m = Message(address, p)
    IN  Count(got[r], Test)

\* every delivered loopback datagram that fits the buffer was returned by
\* try_recv, with its payload and the relay's own address
LoopbackDone(r) ==
    \A address \in Ports, p \in Payloads :
        ByteLen(p) <= BUFFER_MAX_SIZE =>
            GotCount(r, address, p) >= LoopbackDelivered(r, address, p)

\* C2: on a relay started once, every datagram it sent to its own bound
\* address and the transport delivered is eventually returned by try_recv
\* as a message with the same payload and that address.  (The counts only
\* grow, so the datagrams delivered so far are all returned by the next
\* time LoopbackDone holds.)
C2_LoopbackRoundTrip ==
    \A r \in Relays : []<>(startups[r] # 1 \/ LoopbackDone(r))

\* a loopback datagram went round: it was delivered and try_recv returned it
C2_Witness ==
    /\ startups[1] = 1
    /\ \E address \in Ports :
         /\ LoopbackDelivered(1, address, ShortPayload) = 1
         /\ got[1] = << Message(address, ShortPayload) >>

\* C8: a failed socket write drops the message: the queues and what
\* try_send and try_recv return stay as they are, the send loop goes back
\* to waiting for the outbound queue, and on a relay started once every
\* accepted message, those behind the failed one included, gets its write.
C8_WriteFailureDropped ==
    /\ [][\A r \in Relays :
            WriteFailed(r) =>
                /\ send_channel' = send_channel
                /\ recv_channel' = recv_channel
                /\ sent' = sent /\ got' = got
                /\ (Network_try_recv(r))' = Network_try_recv(r)
                /\ \A m \in Messages :
                     (Network_try_send(r, m))' = Network_try_send(r, m)
                /\ \E g \in DOMAIN loops[r] :
                     /\ loops[r][g].send = "await_write"
                     /\ loops'[r][g].send = "await_dequeue"
                     /\ loops'[r][g].cur = None
                     /\ \A h \in DOMAIN loops[r] \ {g} :
                           loops'[r][h] = loops[r][h]]_vars
    /\ \A r \in Relays :
         []<>(startups[r] # 1 \/ WrittenMessages(r) = sent[r])

\* a write failed and the message behind it was written
C8_Witness ==
    /\ startups[1] = 1
    /\ Len(sent[1]) = 2
    /\ Len(written[1]) = 2
    /\ written[1][1].res = "err"
    /\ written[1][2].res = "delivered"
    /\ send_channel[1].queue = << >>

\* the datagrams with payload p that process r sent from its socket at
\* from to the address to and that the transport delivered
Delivered(r, from, to, p) ==
    LET Test(e) == /\ e.res = "delivered"
                   /\ e.socket = from
                   /\ e.message = Message(to, p)
    IN  Count(written[r], Test)

IsText(message) == from_utf8_is_ok(message.payload)

\* one reply with the server's text for every message of q whose payload
\* is UTF-8, to the address the message is tagged with
Replies(q) ==
    LET text == SelectSeq(q, IsText)
    IN  [i \in 1..Len(text) |-> Message(text[i].address, ReceivedPayload)]

\* the client and the server were each started once
BothStartedOnce == startups[Client] = 1 /\ startups[Server] = 1

\* the address the client's socket is bound to
ClientPort == loops[Client][1].socket

\* every delivered datagram of the client was returned by the server's
\* try_recv, every reply was written, and every delivered reply was
\* returned by the client's try_recv
PingDone ==
    /\ \A m \in PingMessages :
          GotCount(Server, ClientPort, m.payload)
              >= Delivered(Client, ClientPort, ServerPort, m.payload)
    /\ WrittenMessages(Server) = sent[Server]
    /\ GotCount(Client, ServerPort, ReceivedPayload)
          >= Delivered(Server, ServerPort, ClientPort, ReceivedPayload)

Unread(r) ==
    \E g \in RecvLoops(loops[r]) : rxq[loops[r][g].socket] # << >>

\* C12: the send loop yields its worker while it waits for an outbound
\* item: on a relay started once whose outbound queue stays empty, with
\* either variant of send_loop and a task pool of any size, every datagram
\* that arrives at the socket is eventually read by the receive loop.
C12_LoopsIndependent ==
    \A r \in Relays :
        []<>(startups[r] # 1 \/ sent[r] # << >> \/ ~Unread(r))

\* C13: a read error of kind ConnectionReset writes no log line at all,
\* a read error of any other kind writes exactly one warning, and the
\* receive loop goes on, in every variant of recv_loop.
C13_ResetSilent ==
    [][\A r \in Relays :
        ReadFailed(r) =>
            /\ reads'[r][Len(reads'[r])].kind = "ConnectionReset" =>
                  warns' = warns
            /\ reads'[r][Len(reads'[r])].kind # "ConnectionReset" =>
                  warns' = Warn(r, "recv")
            /\ \A g \in DOMAIN loops[r] :
                  loops[r][g].recv = "await_read" =>
                      loops'[r][g].recv = "await_read"]_vars

\* C14 as claimed: after a second startup whose bind succeeds, the loops
\* of the first call still run beside the new ones: two send loops consume
\* the outbound queue and two receive loops feed the inbound queue.
C14_OldLoopsKeepRunning ==
    \A r \in Relays :
        (startups[r] = 2 /\ ~crashed[r]) =>
            /\ SendLoops(loops[r]) = {1, 2}
            /\ RecvLoops(loops[r]) = {1, 2}

\* the last loop pair process r spawned
LastLoops(L) == L[Len(L)]

\* C14, amended: a further startup whose bind succeeds binds a new socket
\* on another port and spawns a new send loop and a new receive loop, and
\* by overwriting the two handles it drops the Tasks of the loops before,
\* which cancels them: a loop stops at once, or, when a worker is polling
\* it at that moment, at the point where it next suspends, and the old
\* socket closes when both have stopped.  The handles are those of the
\* new loops, which run on the new socket, and the queues keep their
\* messages.
C14_OldLoopsCancelled ==
    /\ [](\A r \in Relays :
            (startups[r] >= 1 /\ ~crashed[r]) =>
                /\ Len(loops[r]) = startups[r]
                /\ send_task[r] = Some(startups[r])
                /\ recv_task[r] = Some(startups[r])
                /\ LastLoops(loops[r]).send # "cancelled"
                /\ LastLoops(loops[r]).recv # "cancelled"
                /\ ~LastLoops(loops[r]).send_closed
                /\ ~LastLoops(loops[r]).recv_closed
                /\ \A g \in 1..(startups[r] - 1) :
                      /\ loops[r][g].send = "cancelled"
                            \/ loops[r][g].send_closed
                      /\ loops[r][g].recv = "cancelled"
                            \/ loops[r][g].recv_closed)
    /\ [][\A r \in Relays :
            (startups[r] >= 1 /\ startups'[r] = startups[r] + 1
                /\ ~crashed'[r]) =>
                /\ LastLoops(loops'[r]).socket # LastLoops(loops[r]).socket
                /\ LastLoops(loops'[r]).socket \in OpenPorts(loops')
                /\ (LastLoops(loops[r]).socket \in OpenPorts(loops')) =
                      (loops'[r][Len(loops[r])].send_closed
                         \/ loops'[r][Len(loops[r])].recv_closed)
                /\ (LastLoops(loops[r]).socket \notin OpenPorts(loops') =>
                      rxq'[LastLoops(loops[r]).socket] = << >>)
                /\ send_channel' = send_channel
                /\ recv_channel' = recv_channel]_vars
    /\ [][\A r \in Relays : \A g \in DOMAIN loops[r] :
            /\ (loops[r][g].send = "cancelled") =>
                  (loops'[r][g].send = "cancelled")
            /\ (loops[r][g].recv = "cancelled") =>
                  (loops'[r][g].recv = "cancelled")
            /\ loops[r][g].send_closed =>
                  (loops'[r][g].send_closed
                     \/ loops'[r][g].send = "cancelled")
            /\ loops[r][g].recv_closed =>
                  (loops'[r][g].recv_closed
                     \/ loops'[r][g].recv = "cancelled")]_vars

\* a second startup went through while the first send loop was in the
\* middle of a write and a message was waiting in the outbound queue
C14_Witness ==
    /\ startups[1] = 2 /\ ~crashed[1]
    /\ Len(loops[1]) = 2
    /\ loops[1][1].send = "cancelled" /\ loops[1][1].recv = "cancelled"
    /\ loops[1][2].send = "await_dequeue" /\ loops[1][2].recv = "await_read"
    /\ loops[1][1].socket # loops[1][2].socket
    /\ Len(sent[1]) = 2 /\ written[1] = << >>
    /\ Len(send_channel[1].queue) = 1

\* the Network of process r is as Network::new left it, nothing bound
\* and nothing spawned
FreshNetwork(r) ==
    /\ send_task[r] = None /\ recv_task[r] = None
    /\ loops[r] = << >>
    /\ SendLoops(loops[r]) = {} /\ RecvLoops(loops[r]) = {}
    /\ send_channel[r].cap = {} /\ recv_channel[r].cap = {}

\* the loop tasks of process r whose Task has not been dropped
OwnedSendLoops(r) ==
    {g \in SendLoops(loops[r]) : ~loops[r][g].send_closed}
OwnedRecvLoops(r) ==
    {g \in RecvLoops(loops[r]) : ~loops[r][g].recv_closed}

\* C15: after new() both queues are empty, both handles are absent, no
\* socket is bound and no loop runs, and so it stays (but for the queues)
\* until startup is called; after a successful startup both handles are
\* present and the Network has exactly one send loop and one receive
\* loop, on the same bound socket, the only loops there are after the
\* first startup; the two handles are always both absent or both present;
\* try_send and try_recv change neither handle.
C15_Lifecycle ==
    /\ \A r \in Relays :
          /\ FreshNetwork(r)
          /\ send_channel[r].queue = << >> /\ recv_channel[r].queue = << >>
    /\ OpenPorts(loops) = {}
    /\ [](\A r \in Relays :
            /\ startups[r] = 0 => FreshNetwork(r)
            /\ (startups[r] >= 1 /\ ~crashed[r]) =>
                  /\ send_task[r] # None /\ recv_task[r] # None
                  /\ OwnedSendLoops(r) = {send_task[r][1]}
                  /\ OwnedRecvLoops(r) = {recv_task[r][1]}
                  /\ send_task[r] = recv_task[r]
                  /\ loops[r][send_task[r][1]].socket \in Ports
            /\ (startups[r] = 1 /\ ~crashed[r]) =>
                  /\ SendLoops(loops[r]) = {1}
                  /\ RecvLoops(loops[r]) = {1}
            /\ (send_task[r] = None) = (recv_task[r] = None))
    /\ [][\A r \in Relays :
            /\ try_recv(r) => UNCHANGED << send_task, recv_task, loops >>
            /\ \A m \in Messages :
                  try_send(r, m) =>
                      UNCHANGED << send_task, recv_task, loops >>]_vars

\* a relay started twice that has sent and received since
C15_Witness ==
    /\ startups[1] = 2 /\ ~crashed[1]
    /\ send_task[1] = Some(2) /\ recv_task[1] = Some(2)
    /\ Len(sent[1]) = 1
    /\ Len(got[1]) = 1
    /\ Len(written[1]) = 1 /\ written[1][1].socket = loops[1][2].socket

\* the read that process r's receive loop has just finished
LastRead(r) == reads'[r][Len(reads'[r])]

\* C16: for every socket read that returns Ok((amt, src)) the message put
\* on the inbound queue has address src and as payload exactly the first
\* amt bytes the call wrote into the buffer, which are the bytes of the
\* datagram (up to the size of the buffer): no byte an earlier, longer
\* datagram left in the reused buffer gets into it, and an empty datagram
\* gives an empty payload.
C16_ExactBytes ==
    [][\A r \in Relays :
        ReadDone(r) =>
            /\ LastRead(r).message.address = LastRead(r).datagram.src
            /\ LastRead(r).amt =
                  Min(ByteLen(LastRead(r).datagram.data), BUFFER_MAX_SIZE)
            /\ ByteLen(LastRead(r).message.payload) = LastRead(r).amt
            /\ LastRead(r).message.payload =
                  TakeBytes(LastRead(r).datagram.data, LastRead(r).amt)
            /\ \E g \in RecvLoops(loops[r]) :
                  /\ rxq[loops[r][g].socket] # << >>
                  /\ rxq'[loops[r][g].socket] =
                        Tail(rxq[loops[r][g].socket])
                  /\ LastRead(r).message.payload =
                        TakeBytes(loops'[r][g].buf, LastRead(r).amt)
                  /\ \A h \in DOMAIN loops[r] \ {g} :
                        loops'[r][h].buf = loops[r][h].buf
            /\ (LastRead(r).datagram.data = EmptyPayload =>
                  LastRead(r).message.payload = EmptyPayload)
            /\ recv_channel'[r].queue =
                  Append(recv_channel[r].queue, LastRead(r).message)]_vars

\* a datagram longer than the buffer was read, then a short one, then an
\* empty one, and the buffer still holds bytes of the first two
C16_Witness ==
    /\ Len(reads[1]) = 3
    /\ reads[1][1].ok /\ reads[1][1].amt = BUFFER_MAX_SIZE
    /\ reads[1][2].ok /\ reads[1][2].message.payload = ShortPayload
    /\ reads[1][3].ok /\ reads[1][3].message.payload = EmptyPayload
    /\ \E g \in RecvLoops(loops[1]) :
          /\ ByteLen(loops[1][g].buf) = BUFFER_MAX_SIZE
          /\ loops[1][g].buf # ZeroBuf
          /\ TakeBytes(loops[1][g].buf, 3) = ShortPayload

\* the step is a send_to of process r
WriteDone(r) == Len(written'[r]) = Len(written[r]) + 1

\* the send_to that process r's send loop has just finished
LastWrite(r) == written'[r][Len(written'[r])]

\* C17: on a relay started once every message try_send accepted is in
\* exactly one place: written, dequeued and being written, or still in
\* the outbound queue, in the order of the calls; a write is the one
\* send_to of the message the loop dequeued, with the message's payload as
\* its bytes and the message's address as its target; and with the send
\* loop scheduled fairly every accepted message is written in the end.
C17_ExactlyOneWrite ==
    /\ [](\A r \in Relays :
            (startups[r] = 1 /\ ~crashed[r]) =>
                sent[r] = WrittenMessages(r) \o loops[r][1].cur
                              \o send_channel[r].queue)
    /\ [][\A r \in Relays :
            (startups[r] = 1 /\ WriteDone(r)) =>
                /\ loops[r][1].cur = Some(LastWrite(r).message)
                /\ loops'[r][1].cur = None
                /\ send_channel' = send_channel
                /\ LastWrite(r).socket = loops[r][1].socket
                /\ \A p \in Ports :
                      rxq'[p] =
                        IF LastWrite(r).res = "delivered"
                             /\ p = LastWrite(r).message.address
                        THEN Append(rxq[p],
                                 [src |-> loops[r][1].socket,
                                  data |-> LastWrite(r).message.payload])
                        ELSE rxq[p]]_vars
    /\ \A r \in Relays :
          []<>(startups[r] # 1
                 \/ (WrittenMessages(r) = sent[r]
                       /\ send_channel[r].queue = << >>))

\* the same message was accepted twice, with another one after it, and
\* all three were written
C17_Witness ==
    /\ startups[1] = 1
    /\ Len(sent[1]) = 3
    /\ sent[1][1] = sent[1][2] /\ sent[1][2] # sent[1][3]
    /\ WrittenMessages(1) = sent[1]
    /\ send_channel[1].queue = << >>

\* the message was accepted before startup was called
IsEarly(message) == message \in EarlyMessages

\* the messages of q that were accepted before startup
Early(q) == SelectSeq(q, IsEarly)

\* C20: the messages try_send accepts before startup is called stay in
\* the outbound queue in the order of the calls; a startup that succeeds
\* leaves them there for the send loop, which writes them in that order
\* before any message accepted after startup, and under fair scheduling
\* writes them all.
C20_BufferedBeforeStartup ==
    /\ [](\A r \in Relays :
            /\ startups[r] = 0 =>
                  /\ send_channel[r].queue = sent[r]
                  /\ sent[r] = Early(sent[r])
                  /\ written[r] = << >>
            /\ (startups[r] = 1 /\ ~crashed[r]) =>
                  /\ IsPrefix(WrittenMessages(r), sent[r])
                  /\ IsPrefix(Early(sent[r]), sent[r])
                  /\ \A i \in 1..Len(written[r]) :
                        ~IsEarly(written[r][i].message) =>
                            Early(WrittenMessages(r)) = Early(sent[r]))
    /\ [][\A r \in Relays :
            (startups[r] = 0 /\ startups'[r] = 1 /\ ~crashed'[r]) =>
                /\ send_channel'[r].queue = sent[r]
                /\ sent' = sent
                /\ loops'[r][1].send = "await_dequeue"]_vars
    /\ \A r \in Relays :
          []<>(startups[r] # 1 \/ WrittenMessages(r) = sent[r])

\* two different messages were accepted before startup and one after it,
\* and all three were written, in that order
C20_Witness ==
    /\ startups[1] = 1
    /\ Len(sent[1]) = 3
    /\ IsEarly(sent[1][1]) /\ IsEarly(sent[1][2]) /\ ~IsEarly(sent[1][3])
    /\ sent[1][1] # sent[1][2]
    /\ WrittenMessages(1) = sent[1]

\* C18: while the Network exists neither queue is disconnected: the
\* send loop's dequeue does not report Disconnected and its error branch
\* is not taken (no warning of it was ever written), and the receive
\* loop's enqueue does not fail, so every datagram read so far was handed
\* to try_recv.
C18_NeverDisconnected ==
    \A r \in Relays :
        ~dropped[r] =>
            /\ FlumeRecvAsync(send_channel[r].queue, SendChannelSenders(r))
                  # "Disconnected"
            /\ FlumeTrySend(recv_channel[r].queue, recv_channel[r].cap,
                            RecvChannelReceivers(r)) = "Ok"
            /\ warns[r]["dequeue"] = 0
            /\ warns[r]["enqueue"] = 0
            /\ ReadMessages(r) = got[r] \o recv_channel[r].queue

\* a Network that exists, whose send loop waits for the empty outbound
\* queue after a write and whose receive loop has read a datagram
C18_Witness ==
    /\ ~dropped[1] /\ startups[1] = 1
    /\ loops[1][1].send = "await_dequeue"
    /\ send_channel[1].queue = << >>
    /\ Len(written[1]) = 2
    /\ Len(ReadMessages(1)) = 2
    /\ Len(got[1]) = 1

\* C19: when the receive loop reads a datagram after every receiver of
\* the inbound queue was dropped, the enqueue fails: one warning is
\* written, the datagram is dropped (the queue stays as it is), and the
\* loop neither ends nor brings the process down: it awaits the next
\* datagram.
C19_EnqueueOnDropped ==
    [][\A r \in Relays :
        (ReadDone(r) /\ RecvChannelReceivers(r) = {}) =>
            /\ warns' = Warn(r, "enqueue")
            /\ recv_channel' = recv_channel
            /\ crashed' = crashed
            /\ \A g \in DOMAIN loops[r] :
                  /\ loops'[r][g].recv = loops[r][g].recv
                  /\ loops'[r][g].send = loops[r][g].send]_vars

\* the Network was dropped while its receive loop was reading; the loop
\* lost two datagrams in a row to the failed enqueue and still runs
C19_Witness ==
    /\ dropped[1]
    /\ warns[1]["enqueue"] = 2
    /\ Len(ReadMessages(1)) = 2
    /\ recv_channel[1].queue = << >>
    /\ got[1] = << >>
    /\ RecvLoops(loops[1]) # {}

=============================================================================
